---- MODULE Spec2Model ----
(***************************************************************************)
(* Model of dashboard.py: load_data (the normalizer that turns the sheets  *)
(* of strompriser.xlsx into one long-format table) and main (one render of *)
(* the dashboard for the current sidebar selection).                       *)
(*                                                                         *)
(* Numbers are fixed-point: the integer v in a numeric cell denotes the    *)
(* value v / Scale, so that a Year cell can hold a non-integral number and *)
(* astype(int) is a real truncation.  Year fields of the canonical table   *)
(* are plain integers (dtype int); Price fields stay in fixed-point units. *)
(* Means are exact fractions [n, d] in the same units.                     *)
(*                                                                         *)
(* Sheet and region names are written without their Norwegian letters      *)
(* ("ost" for "øst", "Sor" for "Sør"); RegionRank carries Python's string  *)
(* order of the real names, in which "Øst-Norge" sorts last.               *)
(***************************************************************************)
EXTENDS Integers, Sequences, FiniteSets, TLC

VARIABLES workbook, status, combined_df, annual_avg, clean_columns,
          selection, out, prev_warning

vars == <<workbook, status, combined_df, annual_avg, clean_columns,
          selection, out, prev_warning>>

(***************************************************************************)
(* Bounds of the model.                                                    *)
(***************************************************************************)
\* fixed-point denominator of numeric cells
Scale == 2
\* a workbook differs from the template workbook in at most MaxEdits cells
MaxEdits == 2
\* the workbooks that are rendered differ from it in at most MaxPriceEdits
\* price cells
MaxPriceEdits == 3

(***************************************************************************)
(* Cells of a sheet as pandas reads them: NaN, a number, or text.          *)
(***************************************************************************)
NaN == [k |-> "nan", v |-> 0, s |-> ""]
Num(x) == [k |-> "num", v |-> x, s |-> ""]
Str(t) == [k |-> "str", v |-> 0, s |-> t]

Range(f) == {f[i] : i \in DOMAIN f}

Min2(a, b) == IF a < b THEN a ELSE b

RECURSIVE SetToSeq(_)
SetToSeq(S) ==
  IF S = {} THEN <<>>
  ELSE LET x == CHOOSE y \in S : TRUE IN <<x>> \o SetToSeq(S \ {x})

RECURSIVE SumSeq(_)
SumSeq(q) == IF q = <<>> THEN 0 ELSE Head(q) + SumSeq(Tail(q))

RECURSIVE Concat(_)
Concat(qs) == IF qs = <<>> THEN <<>> ELSE Head(qs) \o Concat(Tail(qs))

(***************************************************************************)
(* Static tables of load_data.                                             *)
(***************************************************************************)
regions ==
  [n \in {"ost-norge(NO1)", "sor-norge(NO2)", "midt-norge(NO3)",
          "nord-norge(NO4)", "vest-norge(NO5)"} |->
     CASE n = "ost-norge(NO1)" -> "Ost-Norge"
       [] n = "sor-norge(NO2)" -> "Sor-Norge"
       [] n = "midt-norge(NO3)" -> "Midt-Norge"
       [] n = "nord-norge(NO4)" -> "Nord-Norge"
       [] n = "vest-norge(NO5)" -> "Vest-Norge"]

months == <<"January", "February", "March", "April", "May", "June",
            "July", "August", "September", "October", "November", "December">>

\* month_map = {month: i+1 for i, month in enumerate(months)}
month_map(name) == CHOOSE i \in DOMAIN months : months[i] = name

\* sheet_name in ['midt-norge(NO3)', 'nord-norge(NO4)']
\* faulty variant: every sheet taken as a standard sheet
FirstRowIsHeaderAlt(sheet_name) == FALSE
FirstRowIsHeader(sheet_name) == sheet_name \in {"midt-norge(NO3)", "nord-norge(NO4)"}

\* col in months
IsMonthLabel(c) == c.k = "str" /\ c.s \in Range(months)

(***************************************************************************)
(* load_data, one sheet.  A sheet is [name, columns, rows]: the labels     *)
(* read_excel gave the columns, and the rows of cells below them.          *)
(***************************************************************************)
Failed == [ok |-> FALSE, columns |-> <<>>, df_long |-> <<>>]

\* lines 60-67: the frame after the header step, or the ValueError of a
\* length mismatch in "df.columns = ..." (IndexError on df.iloc[0] of a
\* sheet without rows)
HeaderStep(sheet) ==
  LET n == Len(sheet.columns)
      shifted == FirstRowIsHeader(sheet.name)
      names == IF shifted
               THEN IF sheet.rows = <<>> THEN <<>>
                    ELSE SubSeq(sheet.rows[1], 2, Min2(13, n))
               ELSE SubSeq(sheet.columns, 2, Min2(13, n))
      new == <<Str("Year")>> \o names \o <<Str("Unnamed_13"), Str("Unnamed_14")>>
  IN IF (shifted /\ sheet.rows = <<>>) \/ Len(new) # n
     THEN [ok |-> FALSE, columns |-> <<>>, rows |-> <<>>]
     ELSE [ok |-> TRUE, columns |-> new,
           rows |-> IF shifted THEN Tail(sheet.rows) ELSE sheet.rows]

\* pd.to_numeric(errors='coerce') of one cell; the texts of the model
\* (month names, "n/a") are no numerals
ToNumeric(c) == IF c.k = "num" THEN c ELSE NaN

\* df[col] of a label that occurs twice is a DataFrame: to_numeric raises
HasDuplicateLabel(columns) ==
  \E i \in 2..13 : \E j \in DOMAIN columns : i # j /\ columns[i] = columns[j]

\* lines 70-71: columns 1..12 coerced, the others left as read
CoerceRow(row) ==
  [c \in DOMAIN row |-> IF c \in 2..13 THEN ToNumeric(row[c]) ELSE row[c]]

ColumnOf(columns, label) == CHOOSE c \in DOMAIN columns : columns[c] = label

\* Series.astype(int) of one number of the Year column: the fraction is cut
\* off (the years of the model are not negative, so \div truncates)
AsTypeInt(c) == c.v \div Scale

\* line 82: dropna(subset=['Year'])
DropNaYear(rows) == SelectSeq(rows, LAMBDA r : r[1].k # "nan")

\* line 102: dropna(subset=['Price'])
\* faulty variant: rows without a price kept
DropNaPriceAlt(recs) == recs
DropNaPrice(recs) == SelectSeq(recs, LAMBDA r : r.Price.k # "nan")

\* line 92: df_long['Region_Code'] = sheet_name
\* faulty variant: the first sheet's name for every sheet
RegionCodeAlt(sheet_name) == "ost-norge(NO1)"
RegionCode(sheet_name) == sheet_name

\* lines 86-99: melt, one record per (month column, row), column-major
Melt(sheet_name, month_cols, columns, rows) ==
  LET nr == Len(rows)
      rec(k) ==
        LET label == month_cols[((k - 1) \div nr) + 1]
            row == rows[((k - 1) % nr) + 1]
            year == AsTypeInt(row[1])
        IN [Year |-> year,
            Month |-> label.s,
            Price |-> row[ColumnOf(columns, label)],
            Region |-> regions[sheet_name],
            Region_Code |-> RegionCode(sheet_name),
            Month_Num |-> month_map(label.s),
            Date |-> <<year, month_map(label.s), 1>>]
  IN [k \in 1..(Len(month_cols) * nr) |-> rec(k)]

\* lines 57-102 for one sheet
NormalizeSheet(sheet) ==
  LET h == HeaderStep(sheet) IN
  IF ~h.ok \/ HasDuplicateLabel(h.columns) THEN Failed
  ELSE
    LET rows == [i \in DOMAIN h.rows |-> CoerceRow(h.rows[i])]
        month_cols == SelectSeq(h.columns, IsMonthLabel)
        kept == DropNaYear(rows)
    IN IF \E i \in DOMAIN kept : kept[i][1].k # "num"
       THEN Failed      \* astype(int): ValueError on text
       ELSE [ok |-> TRUE,
             columns |-> <<Str("Year")>> \o month_cols,
             df_long |-> DropNaPrice(Melt(sheet.name, month_cols, h.columns, kept))]

\* a < b for two means with positive denominators
FracLess(a, b) == a.n * b.d < b.n * a.d

\* Series.mean() of the Price column of a non-empty sequence of records
Mean(recs) ==
  [n |-> SumSeq([i \in DOMAIN recs |-> recs[i].Price.v]), d |-> Len(recs)]

\* Python's order of the region display names ("Øst-Norge" sorts last)
RegionRank(r) ==
  CASE r = "Midt-Norge" -> 1
    [] r = "Nord-Norge" -> 2
    [] r = "Sor-Norge" -> 3
    [] r = "Vest-Norge" -> 4
    [] r = "Ost-Norge" -> 5

\* line 110: combined_df.groupby(['Year', 'Region'])['Price'].mean()
AnnualAverage(recs) ==
  LET keys == {<<recs[i].Year, recs[i].Region>> : i \in DOMAIN recs}
      sorted == SortSeq(SetToSeq(keys),
                        LAMBDA a, b : a[1] < b[1] \/
                            (a[1] = b[1] /\ RegionRank(a[2]) < RegionRank(b[2])))
  IN [j \in DOMAIN sorted |->
        [Year |-> sorted[j][1], Region |-> sorted[j][2],
         Price |-> Mean(SelectSeq(recs, LAMBDA r :
                      r.Year = sorted[j][1] /\ r.Region = sorted[j][2]))]]

\* lines 47-112: every sheet in workbook order, then concat and the annual
\* averages; an exception in any sheet leaves load_data without a result
\* (pd.concat of no frames raises too)
LoadResult(wb) ==
  LET per == [i \in DOMAIN wb |-> NormalizeSheet(wb[i])] IN
  IF wb = <<>> \/ \E i \in DOMAIN per : ~per[i].ok
  THEN [ok |-> FALSE, combined_df |-> <<>>, annual_avg |-> <<>>,
        clean_columns |-> <<>>]
  ELSE LET all == Concat([i \in DOMAIN per |-> per[i].df_long]) IN
       [ok |-> TRUE, combined_df |-> all, annual_avg |-> AnnualAverage(all),
        clean_columns |-> [i \in DOMAIN per |-> per[i].columns]]

(***************************************************************************)
(* The input workbooks: a template workbook (one standard sheet, one       *)
(* sheet with the month names in its first row, a data row per template    *)
(* year, a price for January only) with a bounded number of cells changed. *)
(***************************************************************************)
TemplateSheets == <<"ost-norge(NO1)", "midt-norge(NO3)">>
TemplateShifted == {"midt-norge(NO3)"}
TemplateYears == <<2020, 2021>>
DataMonths == {1, 10}
LabelMonths == {1}

Unnamed == <<"Unnamed: 0", "Unnamed: 1", "Unnamed: 2", "Unnamed: 3",
             "Unnamed: 4", "Unnamed: 5", "Unnamed: 6", "Unnamed: 7",
             "Unnamed: 8", "Unnamed: 9", "Unnamed: 10", "Unnamed: 11",
             "Unnamed: 12", "Unnamed: 13", "Unnamed: 14">>

Edit(kind, sheet, row, month, val) ==
  [kind |-> kind, sheet |-> sheet, row |-> row, month |-> month, val |-> val]

\* the template reports a price for January of every year and none later
TemplatePrice(m) == IF m = 1 THEN Num(10) ELSE NaN

PriceValues == {NaN, Num(0), Num(10)}

PriceEdits ==
  UNION {{Edit("price", i, d, m, c) : c \in PriceValues \ {TemplatePrice(m)}} :
         i \in DOMAIN TemplateSheets, d \in DOMAIN TemplateYears,
         m \in DataMonths}

\* a Year cell: missing, the other row's year, a non-integral number, text
YearEdits ==
  UNION {{Edit("year", i, d, 0, c) :
            c \in {NaN, Str("Total"), Num(TemplateYears[1] * Scale + 1)}
                  \cup {Num(TemplateYears[e] * Scale) :
                          e \in DOMAIN TemplateYears \ {d}}} :
         i \in DOMAIN TemplateSheets, d \in DOMAIN TemplateYears}

\* a month label: a name that is no month; in a first-row header also the
\* name of another month (read_excel makes labels of a header row unique)
LabelEdits ==
  UNION {{Edit("label", i, 0, m, c) :
            c \in {Str("Januar")} \cup
                  (IF TemplateSheets[i] \in TemplateShifted
                   THEN {Str(months[m + 1])} ELSE {})} :
         i \in DOMAIN TemplateSheets, m \in LabelMonths}

\* a text where a price should be
TextEdits ==
  {Edit("price", i, d, m, Str("n/a")) :
     i \in DOMAIN TemplateSheets, d \in DOMAIN TemplateYears, m \in DataMonths}

\* a sheet cut to 12 columns
NarrowEdits == {Edit("narrow", i, 0, 0, NaN) : i \in DOMAIN TemplateSheets}

Position(e) == <<e.kind, e.sheet, e.row, e.month>>

RECURSIVE EditSets(_, _)
EditSets(options, k) ==
  IF k = 0 THEN {{}}
  ELSE LET P == EditSets(options, k - 1) IN
       P \cup {E \cup {e} : <<E, e>> \in
                 {x \in P \X options :
                    \A f \in x[1] : Position(f) # Position(x[2])}}

SheetOf(i, E) ==
  LET name == TemplateSheets[i]
      at(kind, row, month, default) ==
        IF \E e \in E : Position(e) = <<kind, i, row, month>>
        THEN (CHOOSE e \in E : Position(e) = <<kind, i, row, month>>).val
        ELSE default
      labels == [m \in 1..12 |-> at("label", 0, m, Str(months[m]))]
      data(d) == <<at("year", d, 0, Num(TemplateYears[d] * Scale))>>
                 \o [m \in 1..12 |-> at("price", d, m, TemplatePrice(m))] \o <<NaN, NaN>>
      datarows == [d \in DOMAIN TemplateYears |-> data(d)]
      plain == [c \in 1..15 |-> Str(Unnamed[c])]
      full ==
        IF name \in TemplateShifted
        THEN [name |-> name, columns |-> plain,
              rows |-> <<(<<NaN>> \o labels \o <<NaN, NaN>>)>> \o datarows]
        ELSE [name |-> name,
              columns |-> <<plain[1]>> \o labels \o <<plain[14], plain[15]>>,
              rows |-> datarows]
  IN IF \E e \in E : Position(e) = <<"narrow", i, 0, 0>>
     THEN [name |-> name, columns |-> SubSeq(full.columns, 1, 12),
           rows |-> [r \in DOMAIN full.rows |-> SubSeq(full.rows[r], 1, 12)]]
     ELSE full

WorkbookOf(E) == [i \in DOMAIN TemplateSheets |-> SheetOf(i, E)]

LoadWorkbooks ==
  {WorkbookOf(E) :
     E \in EditSets(PriceEdits \cup TextEdits \cup YearEdits \cup LabelEdits
                      \cup NarrowEdits, MaxEdits)}

(***************************************************************************)
(* The state machine.                                                      *)
(***************************************************************************)
NoOutput == [warning |-> FALSE, metrics |-> <<>>, norway_yearly |-> <<>>,
             filtered_annual |-> <<>>, seasonal_avg |-> <<>>,
             price_stats |-> <<>>, latest_avg |-> <<>>, overall_avg |-> <<>>]

NoSelection == [regions |-> {}, lo |-> 0, hi |-> 0]

Start(wb) ==
  /\ workbook = wb
  /\ status = "start"
  /\ combined_df = <<>>
  /\ annual_avg = <<>>
  /\ clean_columns = <<>>
  /\ selection = NoSelection
  /\ out = NoOutput
  /\ prev_warning = FALSE

InitLoad == \E wb \in LoadWorkbooks : Start(wb)

\* the first call of load_data (st.cache_data keeps its result)
LoadData ==
  /\ status = "start"
  /\ LET res == LoadResult(workbook) IN
       /\ status' = IF res.ok THEN "loaded" ELSE "load_error"
       /\ combined_df' = res.combined_df
       /\ annual_avg' = res.annual_avg
       /\ clean_columns' = res.clean_columns
  /\ UNCHANGED <<workbook, selection, out, prev_warning>>

SpecLoad == InitLoad /\ [][LoadData]_vars

(***************************************************************************)
(* main: the sidebar selection, the filter and the aggregates.             *)
(***************************************************************************)
SetMax(S) == CHOOSE x \in S : \A y \in S : y <= x
SetMin(S) == CHOOSE x \in S : \A y \in S : x <= y

Years(recs) == {recs[i].Year : i \in DOMAIN recs}
Regions(recs) == {recs[i].Region : i \in DOMAIN recs}

\* lines 170-186: what the multiselect and the range slider can return: any
\* set of the regions present, any range within the years present
Selections(df) ==
  {sel \in [regions : SUBSET Regions(df),
            lo : SetMin(Years(df))..SetMax(Years(df)),
            hi : SetMin(Years(df))..SetMax(Years(df))] : sel.lo <= sel.hi}

\* lines 191-201: the boolean mask, on the canonical table and on annual_avg
Filter(table, sel) ==
  SelectSeq(table, LAMBDA r :
    r.Region \in sel.regions /\ r.Year >= sel.lo /\ r.Year <= sel.hi)

\* line 204: filtered_df.empty
\* faulty variant: the empty check never fires
FilteredEmptyAlt(filtered) == FALSE
FilteredEmpty(filtered) == Len(filtered) = 0

\* df[...] builds a new frame and seasonal_data is a copy: the cached
\* table is the same object, with the same rows, after the render
\* faulty variant: the filter result bound to the cached name
CachedAfterRenderAlt(table, filtered) == filtered
CachedAfterRender(table, filtered) == table

\* groupby('Region')['Price'].mean(): keys in ascending name order
\* faulty variant: keys in descending name order
RegionOrderAlt(a, b) == RegionRank(a) > RegionRank(b)
RegionOrder(a, b) == RegionRank(a) < RegionRank(b)

RegionMeans(recs) ==
  LET sorted == SortSeq(SetToSeq(Regions(recs)), RegionOrder)
  IN [j \in DOMAIN sorted |->
        [Region |-> sorted[j],
         Price |-> Mean(SelectSeq(recs, LAMBDA r : r.Region = sorted[j]))]]

\* Series.idxmax / idxmin: the label of the first row holding the extreme
IdxMax(avg) ==
  avg[CHOOSE i \in DOMAIN avg :
        /\ \A j \in DOMAIN avg : ~FracLess(avg[i].Price, avg[j].Price)
        /\ \A j \in 1..(i - 1) : FracLess(avg[j].Price, avg[i].Price)]
IdxMin(avg) ==
  avg[CHOOSE i \in DOMAIN avg :
        /\ \A j \in DOMAIN avg : ~FracLess(avg[j].Price, avg[i].Price)
        /\ \A j \in 1..(i - 1) : FracLess(avg[i].Price, avg[j].Price)]

\* line 116: df['Year'].max()
LatestYear(recs) == SetMax(Years(recs))

\* lines 114-154
create_overview_metrics(recs) ==
  LET latest_year == LatestYear(recs)
      latest_data == SelectSeq(recs, LAMBDA r : r.Year = latest_year)
      region_avg == RegionMeans(latest_data)
      highest == IdxMax(region_avg)
      lowest == IdxMin(region_avg)
  IN [latest_year |-> latest_year,
      avg_price |-> Mean(latest_data),
      highest_region |-> highest.Region,
      highest_price |-> highest.Price,
      lowest_region |-> lowest.Region,
      lowest_price |-> lowest.Price,
      price_range |->
        [n |-> highest.Price.n * lowest.Price.d - lowest.Price.n * highest.Price.d,
         d |-> highest.Price.d * lowest.Price.d]]

\* Series.pct_change() * 100 of one entry: NaN without a predecessor and
\* for 0/0, infinite for x/0, else (cur / prev - 1) * 100
PctChange(means, j) ==
  IF j = 1 THEN [k |-> "nan", n |-> 0, d |-> 1]
  ELSE LET p == means[j - 1]
           c == means[j]
       IN IF p.n = 0
          THEN IF c.n = 0 THEN [k |-> "nan", n |-> 0, d |-> 1]
               ELSE [k |-> "inf", n |-> 0, d |-> 1]
          ELSE [k |-> "num", n |-> (c.n * p.d - p.n * c.d) * 100, d |-> p.n * c.d]

\* lines 234-235
NorwayYearly(recs) ==
  LET sorted == SortSeq(SetToSeq(Years(recs)), LAMBDA a, b : a < b)
      means == [j \in DOMAIN sorted |->
                  Mean(SelectSeq(recs, LAMBDA r : r.Year = sorted[j]))]
  IN [j \in DOMAIN sorted |->
        [Year |-> sorted[j], Price |-> means[j],
         Price_Change |-> PctChange(means, j)]]

\* lines 314-319
Season(month_num) ==
  CASE month_num \in {12, 1, 2} -> "Winter"
    [] month_num \in {3, 4, 5} -> "Spring"
    [] month_num \in {6, 7, 8} -> "Summer"
    [] month_num \in {9, 10, 11} -> "Autumn"

\* the order of the season names as strings
SeasonRank(s) ==
  CASE s = "Autumn" -> 1 [] s = "Spring" -> 2 [] s = "Summer" -> 3
    [] s = "Winter" -> 4

\* line 321: groupby(['Region', 'Season', 'Year']) sorts its keys
\* lexicographically, each level in the order of its values
SeasonalKeyOrder(a, b) ==
  \/ RegionRank(a[1]) < RegionRank(b[1])
  \/ a[1] = b[1] /\ SeasonRank(a[2]) < SeasonRank(b[2])
  \/ a[1] = b[1] /\ a[2] = b[2] /\ a[3] < b[3]

SeasonalAverage(recs) ==
  LET keys == {<<recs[i].Region, Season(recs[i].Month_Num), recs[i].Year>> :
                 i \in DOMAIN recs}
      sorted == SortSeq(SetToSeq(keys), SeasonalKeyOrder)
  IN [j \in DOMAIN sorted |->
        [Region |-> sorted[j][1], Season |-> sorted[j][2], Year |-> sorted[j][3],
         Price |-> Mean(SelectSeq(recs, LAMBDA r :
                      /\ r.Region = sorted[j][1]
                      /\ Season(r.Month_Num) = sorted[j][2]
                      /\ r.Year = sorted[j][3]))]]

\* lines 365-366: agg(['min', 'max', 'std', 'mean']) and the range.  std is
\* kept as its square, the sample variance (ddof = 1), NaN for one value:
\* (n * sum(x^2) - sum(x)^2) / (n * (n - 1))
PriceStats(recs) ==
  LET sorted == SortSeq(SetToSeq(Regions(recs)), RegionOrder)
      stat(region) ==
        LET g == SelectSeq(recs, LAMBDA r : r.Region = region)
            xs == [i \in DOMAIN g |-> g[i].Price.v]
            n == Len(xs)
            lo == SetMin(Range(xs))
            hi == SetMax(Range(xs))
        IN [Region |-> region, min |-> lo, max |-> hi,
            std |-> IF n = 1 THEN [k |-> "nan", n |-> 0, d |-> 1]
                    ELSE [k |-> "num",
                          n |-> n * SumSeq([i \in DOMAIN xs |-> xs[i] * xs[i]])
                                  - SumSeq(xs) * SumSeq(xs),
                          d |-> n * (n - 1)],
            mean |-> Mean(g), range |-> hi - lo]
  IN [j \in DOMAIN sorted |-> stat(sorted[j])]

\* the derived tables of one render with a non-empty filter result
Output(filtered, filtered_annual) ==
  [warning |-> FALSE,
   metrics |-> <<create_overview_metrics(filtered)>>,
   norway_yearly |-> NorwayYearly(filtered),
   filtered_annual |-> filtered_annual,
   seasonal_avg |-> SeasonalAverage(filtered),
   price_stats |-> PriceStats(filtered),
   latest_avg |-> RegionMeans(SelectSeq(filtered, LAMBDA r :
                    r.Year = SetMax(Years(filtered)))),
   overall_avg |-> RegionMeans(filtered)]

Warning == [NoOutput EXCEPT !.warning = TRUE]

\* whether the render before this one showed the warning
Warned == status = "rendered" /\ out.warning

\* one run of main on the cached tables.  With an empty canonical table
\* int(df['Year'].min()) raises before any widget exists; with an empty
\* filter result that passed line 204, idxmax would raise.
Render ==
  /\ status \in {"loaded", "rendered", "render_error"}
  /\ prev_warning' = Warned
  /\ IF combined_df = <<>>
     THEN /\ status' = "render_error"
          /\ selection' = NoSelection
          /\ out' = NoOutput
          /\ UNCHANGED <<combined_df, annual_avg>>
     ELSE \E sel \in Selections(combined_df) :
            LET filtered_df == Filter(combined_df, sel)
                filtered_annual == Filter(annual_avg, sel)
            IN /\ selection' = sel
               /\ combined_df' = CachedAfterRender(combined_df, filtered_df)
               /\ annual_avg' = CachedAfterRender(annual_avg, filtered_annual)
               /\ IF FilteredEmpty(filtered_df)
                  THEN status' = "rendered" /\ out' = Warning
                  ELSE IF filtered_df = <<>>
                  THEN status' = "render_error" /\ out' = NoOutput
                  ELSE /\ status' = "rendered"
                       /\ out' = Output(filtered_df, filtered_annual)
  /\ UNCHANGED <<workbook, clean_columns>>

RenderWorkbooks == {WorkbookOf(E) : E \in EditSets(PriceEdits, MaxPriceEdits)}

Init == \E wb \in RenderWorkbooks : Start(wb)

Next == LoadData \/ Render

Spec == Init /\ [][Next]_vars

(***************************************************************************)
(* The source side of the normalizer claims: what a sheet of the workbook  *)
(* holds, read off the workbook without the pipeline.                      *)
(***************************************************************************)
Loaded == status = "loaded"

MonthsInFirstRow(s) == s.name \in {"midt-norge(NO3)", "nord-norge(NO4)"}
SourceLabels(s) == IF MonthsInFirstRow(s) THEN s.rows[1] ELSE s.columns
SourceRows(s) == IF MonthsInFirstRow(s) THEN Tail(s.rows) ELSE s.rows
MonthColumns(s) == 2..13 \cap DOMAIN SourceLabels(s)
IsMonthName(c) == c.k = "str" /\ \E m \in 1..12 : months[m] = c.s
SheetNamed(code) == workbook[CHOOSE i \in DOMAIN workbook : workbook[i].name = code]
RecordsOf(code) == SelectSeq(combined_df, LAMBDA r : r.Region_Code = code)

\* the cells of a sheet that hold a price: a numeric cell under a month
\* name, in a data row whose Year is a number
PriceCells(s) ==
  {x \in (DOMAIN SourceRows(s)) \X MonthColumns(s) :
     /\ IsMonthName(SourceLabels(s)[x[2]])
     /\ SourceRows(s)[x[1]][1].k = "num"
     /\ SourceRows(s)[x[1]][x[2]].k = "num"}

\* record rec is the price of cell x of sheet s, with its Year cut to an integer
RecordOfCell(rec, s, x) ==
  /\ rec.Month = SourceLabels(s)[x[2]].s
  /\ months[rec.Month_Num] = rec.Month
  /\ rec.Price = SourceRows(s)[x[1]][x[2]]
  /\ rec.Year = SourceRows(s)[x[1]][1].v \div Scale

\* the Year values of the sheet's data rows, as written in the sheet
YearOccurs(s, year) ==
  \E r \in DOMAIN SourceRows(s) :
    SourceRows(s)[r][1].k = "num" /\ SourceRows(s)[r][1].v = year * Scale

(* C1, as stated: in the table of an accepted workbook every record has a *)
(* non-null Price, a Month_Num in 1..12 and a Year that occurs in the     *)
(* Year column of its sheet, and only numeric month cells yield records.  *)
C1_YearOccursInSource ==
  Loaded =>
    /\ \A i \in DOMAIN combined_df :
         /\ combined_df[i].Price.k = "num"
         /\ combined_df[i].Month_Num \in 1..12
         /\ YearOccurs(SheetNamed(combined_df[i].Region_Code), combined_df[i].Year)
    /\ \A j \in DOMAIN workbook :
         Len(RecordsOf(workbook[j].name)) = Cardinality(PriceCells(workbook[j]))

(* C1, amended: every record has a non-null Price, a Month_Num in 1..12   *)
(* and the Year of a data row of its sheet cut to its integer part; each  *)
(* record is the price of a numeric month cell, and a sheet yields as     *)
(* many records as it has such cells (a missing or non-numeric month cell *)
(* yields none).                                                          *)
C1_RecordsAreSourcePrices ==
  Loaded =>
    /\ \A i \in DOMAIN combined_df :
         /\ combined_df[i].Price.k = "num"
         /\ combined_df[i].Month_Num \in 1..12
         /\ \E x \in PriceCells(SheetNamed(combined_df[i].Region_Code)) :
              RecordOfCell(combined_df[i],
                           SheetNamed(combined_df[i].Region_Code), x)
    /\ \A j \in DOMAIN workbook :
         Len(RecordsOf(workbook[j].name)) = Cardinality(PriceCells(workbook[j]))

\* a loaded sheet with a non-integral Year in a row that yields a record,
\* and a month cell holding text in a row with a Year
C1_Witness ==
  /\ Loaded
  /\ \E j \in DOMAIN workbook :
       /\ \E x \in PriceCells(workbook[j]) :
            SourceRows(workbook[j])[x[1]][1].v % Scale # 0
       /\ \E r \in DOMAIN SourceRows(workbook[j]) : \E c \in MonthColumns(workbook[j]) :
            /\ SourceRows(workbook[j])[r][1].k = "num"
            /\ SourceRows(workbook[j])[r][c].k = "str"
       /\ RecordsOf(workbook[j].name) # <<>>

NoDuplicateKeys ==
  \A i, j \in DOMAIN combined_df :
    i # j =>
      <<combined_df[i].Region_Code, combined_df[i].Year, combined_df[i].Month_Num>>
        # <<combined_df[j].Region_Code, combined_df[j].Year, combined_df[j].Month_Num>>

\* no two data rows of a sheet hold the same Year value
DistinctYearValues(s) ==
  \A r1, r2 \in DOMAIN SourceRows(s) :
    (r1 # r2 /\ SourceRows(s)[r1][1].k = "num" /\ SourceRows(s)[r2][1].k = "num")
      => SourceRows(s)[r1][1].v # SourceRows(s)[r2][1].v

\* no two data rows of a sheet hold Year values with the same integer part
DistinctIntegerYears(s) ==
  \A r1, r2 \in DOMAIN SourceRows(s) :
    (r1 # r2 /\ SourceRows(s)[r1][1].k = "num" /\ SourceRows(s)[r2][1].k = "num")
      => SourceRows(s)[r1][1].v \div Scale # SourceRows(s)[r2][1].v \div Scale

(* C2, as stated: if no sheet has two data rows with the same Year value, *)
(* no two records share (Region_Code, Year, Month_Num).                   *)
C2_UniqueGivenDistinctYearValues ==
  (Loaded /\ \A j \in DOMAIN workbook : DistinctYearValues(workbook[j]))
    => NoDuplicateKeys

(* C2, amended: if no sheet has two data rows whose Year values have the  *)
(* same integer part, no two records share (Region_Code, Year, Month_Num).*)
C2_UniqueGivenDistinctIntegerYears ==
  (Loaded /\ \A j \in DOMAIN workbook : DistinctIntegerYears(workbook[j]))
    => NoDuplicateKeys

\* two sheets with records for the same year and month, one of them with a
\* non-integral Year, and no two rows of a sheet with the same integer year
C2_Witness ==
  /\ Loaded
  /\ \A j \in DOMAIN workbook : DistinctIntegerYears(workbook[j])
  /\ \E j \in DOMAIN workbook : \E x \in PriceCells(workbook[j]) :
       SourceRows(workbook[j])[x[1]][1].v % Scale # 0
  /\ \E i, j \in DOMAIN combined_df :
       /\ combined_df[i].Region_Code # combined_df[j].Region_Code
       /\ combined_df[i].Year = combined_df[j].Year
       /\ combined_df[i].Month_Num = combined_df[j].Month_Num
  /\ \E i, j \in DOMAIN combined_df :
       /\ combined_df[i].Region_Code = combined_df[j].Region_Code
       /\ combined_df[i].Year # combined_df[j].Year

\* a sheet of unrecognized structure: fewer than 13 columns, or a month
\* header that is none of the 12 month names
Unrecognized(s) ==
  \/ Len(s.columns) < 13
  \/ \E c \in MonthColumns(s) : ~IsMonthName(SourceLabels(s)[c])

(* C3: a sheet of unrecognized structure makes load_data fail: no table   *)
(* is returned and no record of any sheet is emitted.                     *)
C3_UnrecognizedSheetIsFatal ==
  (status # "start" /\ \E j \in DOMAIN workbook : Unrecognized(workbook[j]))
    => (status = "load_error" /\ combined_df = <<>> /\ annual_avg = <<>>)

C9_UnresolvedYearRowsDropped ==
  (status # "start" /\ \A j \in DOMAIN workbook :
       ~Unrecognized(workbook[j]) /\ ~HasDuplicateLabel(SourceLabels(workbook[j])))
    => /\ Loaded
       /\ \A j \in DOMAIN workbook :
            Len(RecordsOf(workbook[j].name)) = Cardinality(PriceCells(workbook[j]))

(***************************************************************************)
(* The claims about a render, stated on the canonical table itself.        *)
(***************************************************************************)
Rendered == status = "rendered"

\* the records the current selection keeps
Matching ==
  {i \in DOMAIN combined_df :
     /\ combined_df[i].Region \in selection.regions
     /\ selection.lo <= combined_df[i].Year
     /\ combined_df[i].Year <= selection.hi}

RECURSIVE SumPrices(_)
SumPrices(I) ==
  IF I = {} THEN 0
  ELSE LET i == CHOOSE x \in I : TRUE
       IN combined_df[i].Price.v + SumPrices(I \ {i})

(* C5: whatever renders came before, a render whose selection matches no  *)
(* record shows the warning and nothing else and raises no error; the     *)
(* canonical table stays the one load_data returned, and a render whose   *)
(* selection matches records has its metrics and all its aggregates.      *)
C5_EmptySelectionWarns ==
  /\ status = "render_error" => combined_df = <<>>
  /\ status \in {"loaded", "rendered", "render_error"}
       => combined_df = LoadResult(workbook).combined_df
  /\ (Rendered /\ Matching = {})
       => /\ out.warning
          /\ out.metrics = <<>>
          /\ out.norway_yearly = <<>> /\ out.seasonal_avg = <<>>
          /\ out.price_stats = <<>> /\ out.latest_avg = <<>>
          /\ out.overall_avg = <<>>
  /\ (Rendered /\ Matching # {})
       => /\ ~out.warning
          /\ Len(out.metrics) = 1
          /\ out.norway_yearly # <<>> /\ out.seasonal_avg # <<>>
          /\ out.price_stats # <<>> /\ out.latest_avg # <<>>
          /\ out.overall_avg # <<>> /\ out.filtered_annual # <<>>

\* a full render right after a render that showed the warning for a
\* non-empty region set
C5_Witness ==
  /\ Rendered
  /\ prev_warning
  /\ Matching # {}
  /\ ~out.warning
  /\ Cardinality(Matching) < Len(combined_df)

(* C6: the percentage-change series has one entry per year present, in    *)
(* ascending year order; its first entry is undefined and every other     *)
(* entry is finite.                                                       *)
C6_OneUndefinedChange ==
  (Rendered /\ ~out.warning) =>
    LET ny == out.norway_yearly IN
      /\ {ny[j].Year : j \in DOMAIN ny} = {combined_df[i].Year : i \in Matching}
      /\ \A j \in DOMAIN ny : \A k \in DOMAIN ny : j < k => ny[j].Year < ny[k].Year
      /\ ny[1].Price_Change.k = "nan"
      /\ \A j \in 2..Len(ny) : ny[j].Price_Change.k = "num"

\* the regions with a record in the latest matching year, and their means
LatestMatching ==
  {i \in Matching : \A j \in Matching : combined_df[j].Year <= combined_df[i].Year}
LatestOf(region) == {i \in LatestMatching : combined_df[i].Region = region}
LatestRegions == {combined_df[i].Region : i \in LatestMatching}
\* mean(a) <= mean(b)
LatestMeanLeq(a, b) ==
  SumPrices(LatestOf(a)) * Cardinality(LatestOf(b))
    <= SumPrices(LatestOf(b)) * Cardinality(LatestOf(a))

(* C7: the overview metrics are those of the maximum Year present: the    *)
(* highest (lowest) region has the maximum (minimum) per-region mean of   *)
(* that year, the first such region in ascending name order on a tie, and *)
(* price_range is the highest mean minus the lowest; with one region in   *)
(* that year both are that region and the range is 0.                     *)
C7_OverviewMetrics ==
  (Rendered /\ ~out.warning) =>
    LET m == out.metrics[1]
        hi == m.highest_region
        lo == m.lowest_region
    IN /\ \E i \in LatestMatching : combined_df[i].Year = m.latest_year
       /\ hi \in LatestRegions /\ lo \in LatestRegions
       /\ \A r \in LatestRegions :
            /\ LatestMeanLeq(r, hi)
            /\ LatestMeanLeq(hi, r) => RegionRank(hi) <= RegionRank(r)
            /\ LatestMeanLeq(lo, r)
            /\ LatestMeanLeq(r, lo) => RegionRank(lo) <= RegionRank(r)
       /\ m.highest_price.n * Cardinality(LatestOf(hi))
            = SumPrices(LatestOf(hi)) * m.highest_price.d
       /\ m.lowest_price.n * Cardinality(LatestOf(lo))
            = SumPrices(LatestOf(lo)) * m.lowest_price.d
       /\ m.price_range.n * Cardinality(LatestOf(hi)) * Cardinality(LatestOf(lo))
            = (SumPrices(LatestOf(hi)) * Cardinality(LatestOf(lo))
                 - SumPrices(LatestOf(lo)) * Cardinality(LatestOf(hi)))
              * m.price_range.d
       /\ Cardinality(LatestRegions) = 1 => (hi = lo /\ m.price_range.n = 0)

\* two regions tie in the latest year, which is not the only year, and the
\* table lists the region that sorts last first
C7_Witness ==
  /\ Rendered /\ ~out.warning
  /\ Cardinality(LatestRegions) = 2
  /\ \A a, b \in LatestRegions : LatestMeanLeq(a, b)
  /\ LatestMatching # Matching
  /\ out.metrics[1].highest_region = "Midt-Norge"
  /\ out.metrics[1].lowest_region = "Midt-Norge"
  /\ combined_df[1].Region = "Ost-Norge"

FixedSeasonRank(s) ==
  CASE s = "Winter" -> 1 [] s = "Spring" -> 2 [] s = "Summer" -> 3
    [] s = "Autumn" -> 4

(* C10: the rows of every grouped aggregate come in the order region name *)
(* ascending, then year ascending, then season in the order Winter,       *)
(* Spring, Summer, Autumn; in particular the rows of SeasonalAverage.     *)
C10_GroupKeyOrder ==
  (Rendered /\ ~out.warning) =>
    LET sa == out.seasonal_avg IN
      \A j \in DOMAIN sa : \A k \in DOMAIN sa :
        j < k =>
          \/ RegionRank(sa[j].Region) < RegionRank(sa[k].Region)
          \/ /\ sa[j].Region = sa[k].Region
             /\ sa[j].Year < sa[k].Year
          \/ /\ sa[j].Region = sa[k].Region
             /\ sa[j].Year = sa[k].Year
             /\ FixedSeasonRank(sa[j].Season) < FixedSeasonRank(sa[k].Season)

====
